---- MODULE Spec2Model ----
(***************************************************************************)
(* The Quantum driver of apogee.py as a state machine.                     *)
(*                                                                         *)
(* The serial link and the device are the environment: every open, write   *)
(* and read the driver performs has its outcome drawn from the outcomes    *)
(* pyserial can produce (SerialException on open / write / read, or a      *)
(* read that returns 0..n bytes because of the 0.5 s timeout).  Replies    *)
(* are byte sequences; struct.pack / struct.unpack are computed on bytes.  *)
(* Python exceptions that no handler of the operation catches end the      *)
(* operation with exc # "none".                                            *)
(***************************************************************************)
EXTENDS Integers, Sequences, FiniteSets, TLC

\* ------------------------------------------------------------------ bounds
\* Largest logging count the device reports.
MaxCount == 2

\* Most bytes of earlier replies the input buffer holds unread.
MaxUnread == 1

\* ------------------------------------------------- constants of the program
number_to_average == 5
SENTINEL == 9999
VOLT_REPLY_LEN == 5
OFFSET_REPLY_LEN == 4

\* Commands (their first byte identifies them on the wire).
GET_VOLT == "GET_VOLT"
READ_CALIBRATION == "READ_CALIBRATION"
GET_LOGGING_COUNT == "GET_LOGGING_COUNT"
GET_LOGGED_ENTRY == "GET_LOGGED_ENTRY"
ERASE_LOGGED_DATA == "ERASE_LOGGED_DATA"

\* ------------------------------------------------------ environment domains
\* Float values the device sends (32-bit floats with an exact integer value).
FloatDomain == {0, 1, 2, 9999}
\* Voltages and logged entries the device reports.
Volts == {1, 9999}
Entries == {2}
\* Calibration pairs stored in a device.
CalMults == {2}
CalOffs == {1}
\* Reference time (in minutes) the caller passes to get_all_logged_entries.
Times == {100}
\* Status / echo byte that leads a 5-byte reply.
StatusByte == 1

\* ------------------------------------------------------------ Python values
NoneV == [kind |-> "None", num |-> 0, den |-> 1]
IntV(n) == [kind |-> "int", num |-> n, den |-> 1]
BoolV(b) == [kind |-> "bool", num |-> IF b THEN 1 ELSE 0, den |-> 1]
\* A float with the exact value num / den (den > 0).
FloatV(n, d) == [kind |-> "float", num |-> n, den |-> d]

\* ------------------------------------------------------ struct pack / unpack
\* struct.pack('<I', n): 4 bytes, least significant first.
PackU32(n) ==
    << n % 256, (n \div 256) % 256, (n \div 65536) % 256, (n \div 16777216) % 256 >>

\* Mutant: the count decoded most significant byte first.
UnpackU32_BigEndian(b) == b[4] + 256 * b[3] + 65536 * b[2] + 16777216 * b[1]

\* struct.unpack('<I', b)[0] for a 4-byte b.
UnpackU32(b) == b[1] + 256 * b[2] + 65536 * b[3] + 16777216 * b[4]

\* struct.pack('<f', v), the IEEE-754 single of v, least significant byte first.
PackF(v) ==
    CASE v = 0 -> <<0, 0, 0, 0>>
      [] v = 1 -> <<0, 0, 128, 63>>
      [] v = 2 -> <<0, 0, 0, 64>>
      [] v = 9999 -> <<0, 60, 28, 70>>

\* struct.unpack('<f', b)[0] for a 4-byte b.
UnpackF(b) == CHOOSE v \in FloatDomain : PackF(v) = b

\* struct.unpack raises struct.error unless the buffer is exactly 4 bytes.
UnpackRaises(b) == Len(b) # 4

\* bytes[1:]
Slice1(b) == IF Len(b) = 0 THEN <<>> ELSE Tail(b)

\* The first k bytes of s (what a read gets before the timeout).
Take(s, k) == SubSeq(s, 1, IF k < Len(s) THEN k ELSE Len(s))

RECURSIVE Sum(_)
Sum(s) == IF s = <<>> THEN 0 ELSE Head(s) + Sum(Tail(s))

VARIABLES
    quantum,            \* self.quantum: "None" or "Serial"
    multiplier,         \* self.multiplier
    offset,             \* self.offset
    calOf,              \* history: where multiplier / offset were decoded
    op,                 \* the public operation in progress
    pc,                 \* its position
    exc,                \* the exception the operation ended with, or "none"
    result,             \* the value the operation returned
    i,                  \* loop index
    response_list,      \* read_voltage's samples
    response,           \* the last reply with byte 0 removed
    voltage,            \* get_micromoles' local
    count,              \* get_all_logged_entries' local
    earliest_datetime,  \* get_all_logged_entries' local
    current_datetime,   \* get_all_logged_entries' argument
    csvfile,            \* logged_entries.csv
    log,                \* history: link events of the operation in progress
    unread              \* link: bytes of earlier replies in the input buffer

vars == << quantum, multiplier, offset, calOf, op, pc, exc, result, i,
           response_list, response, voltage, count, earliest_datetime,
           current_datetime, csvfile, log, unread >>

locals == << i, response_list, response, voltage, count, earliest_datetime,
             current_datetime >>

\* Link events.
Ev(e, c, d) == [ev |-> e, cmd |-> c, data |-> d]
EvOpen == Ev("open", "", <<>>)
\* A request handed to write(), with the argument bytes it carries.
EvWrite(c, d) == Ev("write", c, d)
\* A read() that returned the bytes d.
EvRead(d) == Ev("read", "", d)
\* The call named (open, write or read) raised SerialException / IOError.
EvFault(call) == Ev("fault", call, <<>>)
EvSleep == Ev("sleep", "", <<>>)

NoFile == [exists |-> FALSE, header |-> FALSE, rows |-> <<>>]

\* ------------------------------------------------------- connect_to_device
\* Outcomes of the link during connect_to_device: the open fails, the write or
\* one of the two reads raises SerialException, or the device's 9-byte reply
\* (status, multiplier, offset) is read as k1 <= 5 bytes then k2 <= 4 bytes.
ConnFaults == {"open_fail", "write_fault", "read1_fault", "read2_fault"}

ConnOutcomes ==
    [kind : ConnFaults, m : {0}, o : {0}, k1 : {0}, k2 : {0}]
    \cup [kind : {"reply"}, m : CalMults, o : CalOffs,
          k1 : 0..VOLT_REPLY_LEN, k2 : 0..OFFSET_REPLY_LEN]

CalStream(out) == <<StatusByte>> \o PackF(out.m) \o PackF(out.o)

\* self.quantum.read(5)
ConnFirstRead(out) == Take(CalStream(out), out.k1)

\* self.quantum.read(5)[1:]
ConnMultiplierBytes(out) == Slice1(ConnFirstRead(out))

\* self.quantum.read(4)
ConnOffsetBytes(out) ==
    Take(SubSeq(CalStream(out), out.k1 + 1, Len(CalStream(out))), out.k2)

\* The input buffer after connect_to_device saw `out`.  Serial(...) gives a new
\* handle with an empty buffer; with no handle left there is no buffer; of the
\* 9 bytes of the reply the two reads took k1 + k2, and the rest, if the device
\* sent it, arrives after the timeout and stays.
ConnLink(out) ==
    IF out.kind # "reply" THEN {0}
    ELSE {n \in 0..MaxUnread :
            n <= VOLT_REPLY_LEN + OFFSET_REPLY_LEN - out.k1 - out.k2}

\* A history tag turns "stale" when a new handle replaces the one it was read on.
Age(t) == IF t = "current" THEN "stale" ELSE t

\* The driver's fields and the exception after connect_to_device sees `out`.
connect_to_device(out) ==
    LET aged == [multiplier |-> Age(calOf.multiplier), offset |-> Age(calOf.offset)]
        opened == <<EvOpen, EvWrite(READ_CALIBRATION, <<>>)>>
    IN
    CASE out.kind = "open_fail" ->
            \* Serial(...) raises SerialException: caught, handle set to None
            [quantum |-> "None", multiplier |-> multiplier, offset |-> offset,
             calOf |-> calOf, exc |-> "none", log |-> <<EvFault("open")>>]
      [] out.kind = "write_fault" ->
            [quantum |-> "None", multiplier |-> multiplier, offset |-> offset,
             calOf |-> aged, exc |-> "none",
             log |-> opened \o <<EvFault("write")>>]
      [] out.kind = "read1_fault" ->
            [quantum |-> "None", multiplier |-> multiplier, offset |-> offset,
             calOf |-> aged, exc |-> "none",
             log |-> opened \o <<EvFault("read")>>]
      [] out.kind = "read2_fault" ->
            [quantum |-> "None", multiplier |-> multiplier, offset |-> offset,
             calOf |-> aged, exc |-> "none",
             log |-> opened \o <<EvRead(ConnFirstRead(out)), EvFault("read")>>]
      [] out.kind = "reply" ->
            LET mb == ConnMultiplierBytes(out)
                ob == ConnOffsetBytes(out)
                lg == opened \o <<EvRead(ConnFirstRead(out)), EvRead(ob)>>
            IN
            IF UnpackRaises(mb)
            THEN \* struct.error at line 60: not a SerialException, not caught
                 [quantum |-> "Serial", multiplier |-> multiplier,
                  offset |-> offset, calOf |-> aged, exc |-> "struct.error",
                  log |-> lg]
            ELSE IF UnpackRaises(ob)
            THEN \* struct.error at line 62, after self.multiplier was assigned
                 [quantum |-> "Serial", multiplier |-> UnpackF(mb),
                  offset |-> offset,
                  calOf |-> [aged EXCEPT !.multiplier = "current"],
                  exc |-> "struct.error", log |-> lg]
            ELSE [quantum |-> "Serial", multiplier |-> UnpackF(mb),
                  offset |-> UnpackF(ob),
                  calOf |-> [multiplier |-> "current", offset |-> "current"],
                  exc |-> "none", log |-> lg]

Init ==
    /\ quantum = "None"
    /\ multiplier = 0
    /\ offset = 0
    /\ calOf = [multiplier |-> "default", offset |-> "default"]
    /\ op = "__init__"
    /\ pc = "start"
    /\ exc = "none"
    /\ result = NoneV
    /\ i = 0
    /\ response_list = <<>>
    /\ response = <<>>
    /\ voltage = NoneV
    /\ count = NoneV
    /\ earliest_datetime = 0
    /\ current_datetime = 0
    /\ csvfile = NoFile
    /\ log = <<>>
    /\ unread = 0

\* The fields connect_to_device assigns.
SetConnected(c) ==
    /\ quantum' = c.quantum
    /\ multiplier' = c.multiplier
    /\ offset' = c.offset
    /\ calOf' = c.calOf

\* Quantum.__init__: the fields are set, then connect_to_device runs.  An
\* exception that leaves the constructor leaves the caller without an object.
Quantum_init ==
    /\ pc = "start"
    /\ \E out \in ConnOutcomes :
         LET c == connect_to_device(out) IN
         /\ SetConnected(c)
         /\ exc' = c.exc
         /\ log' = c.log
         /\ \E u \in ConnLink(out) : unread' = u
         /\ pc' = IF c.exc = "none" THEN "done" ELSE "dead"
    /\ result' = NoneV
    /\ UNCHANGED <<op, locals, csvfile>>

\* The caller invokes connect_to_device on the object.
Call_connect_to_device ==
    /\ pc = "idle"
    /\ op' = "connect_to_device"
    /\ \E out \in ConnOutcomes :
         LET c == connect_to_device(out) IN
         /\ SetConnected(c)
         /\ exc' = c.exc
         /\ log' = c.log
         /\ \E u \in ConnLink(out) : unread' = u
    /\ pc' = "done"
    /\ result' = NoneV
    /\ UNCHANGED <<locals, csvfile>>

\* --------------------------------------------------- one request / reply
\* Outcomes of one write-then-read(5) exchange: the write or the read raises
\* an IOError, or the read returns the first k bytes of the device's reply
\* (k < 5 when the timeout cuts it short, k = 0 when the device is silent).
ExchOutcomes(Vals) ==
    [kind : {"write_fault", "read_fault"}, v : {0}, k : {0}]
    \cup [kind : {"reply"}, v : Vals, k : 0..VOLT_REPLY_LEN]

Min(a, b) == IF a < b THEN a ELSE b

\* read(5) returns what the input buffer holds before it waits: with bytes of
\* an earlier reply in the buffer it cannot return fewer than those.
Readable(out) ==
    (quantum # "None" /\ out.kind = "reply") =>
        out.k >= Min(unread, VOLT_REPLY_LEN)

\* The input buffer after one write-then-read(5) exchange.  Nothing in the
\* driver empties the buffer: the read takes k bytes, the oldest first, and
\* whatever else of the 5-byte reply the device sends stays for later reads.
\* A write that raised asked nothing; a read that raised took nothing.
LinkAfter(out) ==
    IF quantum = "None" THEN {unread}
    ELSE CASE out.kind = "write_fault" -> {unread}
           [] out.kind = "read_fault" ->
                unread..Min(MaxUnread, unread + VOLT_REPLY_LEN)
           [] out.kind = "reply" ->
                {n \in 0..MaxUnread : /\ n >= unread - out.k
                                      /\ n <= unread + VOLT_REPLY_LEN - out.k}

\* The call of the exchange that raised.
FaultOf(out) == EvFault(IF out.kind = "write_fault" THEN "write" ELSE "read")

\* self.quantum.read(5) for a float reply / for a count reply.
ReadFloat(out) == Take(<<StatusByte>> \o PackF(out.v), out.k)
ReadU32(out) == Take(<<StatusByte>> \o PackU32(out.v), out.k)

\* The operation ends with an exception no handler caught.
Raise(e) ==
    /\ pc' = "done"
    /\ exc' = e
    /\ result' = NoneV

\* ------------------------------------------------------------ read_voltage
\* Mutant: the sum divided by the number of requests, not of samples.
Mean_FixedDivisor(list) == FloatV(Sum(list), number_to_average)

\* sum(response_list) / len(response_list), or 0.0
Mean(list) ==
    IF list # <<>> THEN FloatV(Sum(list), Len(list)) ELSE FloatV(0, 1)

\* voltage == 9999
IsSentinel(v) == v.kind # "None" /\ v.num = SENTINEL * v.den

\* read_voltage returns v: to the caller, or to get_micromoles.
RvReturn(v) ==
    IF op = "read_voltage"
    THEN /\ pc' = "done"
         /\ result' = v
         /\ exc' = "none"
         /\ UNCHANGED voltage
    ELSE /\ pc' = "gm_ret"
         /\ voltage' = v
         /\ UNCHANGED <<result, exc>>

\* Mutant: an IOError in the exchange skips the sample and the loop goes on.
VoltFault_Continue ==
    /\ i' = i + 1
    /\ UNCHANGED <<response_list, response, pc, exc, result, voltage>>

\* Lines 128-136: an IOError in the exchange ends the whole read with 9999.
VoltFault ==
    /\ RvReturn(IntV(SENTINEL))
    /\ UNCHANGED <<i, response_list, response>>

\* Mutant: read_voltage reconnects on every call.
NeedsConnect_Always == TRUE

\* if self.quantum is None
NeedsConnect == quantum = "None"

\* Lines 94-118: the reconnect when there is no handle, then the locals.
\* connect_to_device catches SerialException itself, so the except IOError of
\* line 100 never runs; a struct.error raised by it passes through.
read_voltage_begin(o) ==
    /\ pc = "idle"
    /\ op' = o
    /\ i' = 0
    /\ response_list' = <<>>
    /\ IF NeedsConnect
       THEN \E out \in ConnOutcomes :
              LET c == connect_to_device(out) IN
              /\ SetConnected(c)
              /\ log' = c.log
              /\ \E u \in ConnLink(out) : unread' = u
              /\ IF c.exc # "none"
                 THEN Raise(c.exc)
                 ELSE /\ pc' = "rv_loop"
                      /\ UNCHANGED <<exc, result>>
       ELSE /\ pc' = "rv_loop"
            /\ UNCHANGED <<quantum, multiplier, offset, calOf, log, unread,
                           exc, result>>
    /\ UNCHANGED <<response, voltage, count, earliest_datetime,
                   current_datetime, csvfile>>

\* Mutant: no pause after a sample.
AfterSample_NoSleep(lg) == lg

\* sleep(number_of_seconds / number_to_average), after the append
AfterSample(lg) == lg \o <<EvSleep>>

\* Lines 120-151: one pass of the loop.
read_voltage_iter ==
    /\ pc = "rv_loop"
    /\ i < number_to_average
    /\ IF quantum = "None"
       THEN \* None.write: AttributeError is not an IOError
            /\ Raise("AttributeError")
            /\ UNCHANGED <<i, response_list, response, voltage, log, unread>>
       ELSE \E out \in ExchOutcomes(Volts) :
              /\ Readable(out)
              /\ \E u \in LinkAfter(out) : unread' = u
              /\ CASE out.kind \in {"write_fault", "read_fault"} ->
                     /\ log' = log \o <<EvWrite(GET_VOLT, <<>>), FaultOf(out)>>
                     /\ VoltFault
                [] out.kind = "reply" ->
                     LET r == Slice1(ReadFloat(out))
                         lg == log \o <<EvWrite(GET_VOLT, <<>>), EvRead(ReadFloat(out))>>
                     IN
                     /\ response' = r
                     /\ IF r = <<>>
                        THEN \* continue
                             /\ i' = i + 1
                             /\ log' = lg
                             /\ UNCHANGED <<response_list, pc, exc, result, voltage>>
                        ELSE IF UnpackRaises(r)
                        THEN /\ Raise("struct.error")
                             /\ log' = lg
                             /\ UNCHANGED <<i, response_list, voltage>>
                        ELSE /\ response_list' = Append(response_list, UnpackF(r))
                             /\ log' = AfterSample(lg)
                             /\ i' = i + 1
                             /\ UNCHANGED <<pc, exc, result, voltage>>
    /\ UNCHANGED <<quantum, multiplier, offset, calOf, op, count,
                   earliest_datetime, current_datetime, csvfile>>

\* Lines 153-157.
read_voltage_end ==
    /\ pc = "rv_loop"
    /\ i = number_to_average
    /\ RvReturn(Mean(response_list))
    /\ UNCHANGED <<quantum, multiplier, offset, calOf, op, i, response_list, response, count,
                   earliest_datetime, current_datetime, csvfile, log, unread>>

\* ---------------------------------------------------------- get_micromoles
\* Mutant: the negative product is returned as it is.
Micromoles_NoClamp(v, off, mul) == FloatV((v.num - off * v.den) * mul * 1000, v.den)

\* (voltage - self.offset) * self.multiplier * 1000, clamped at 0
Micromoles(v, off, mul) ==
    LET n == (v.num - off * v.den) * mul * 1000 IN
    IF n < 0 THEN IntV(0) ELSE FloatV(n, v.den)

\* Lines 73-87, after read_voltage returned.
get_micromoles_end ==
    /\ pc = "gm_ret"
    /\ pc' = "done"
    /\ exc' = "none"
    /\ result' = IF IsSentinel(voltage) THEN NoneV
                 ELSE Micromoles(voltage, offset, multiplier)
    /\ UNCHANGED <<quantum, multiplier, offset, calOf, op, locals, csvfile, log, unread>>

\* ------------------------------------------------------- erase_logged_data
\* Mutant: success is reported whether or not the write raised.
erase_logged_data_AlwaysTrue(wrote) ==
    IF quantum = "None"
    THEN [ret |-> NoneV, exc |-> "AttributeError", log |-> <<>>]
    ELSE [ret |-> BoolV(TRUE), exc |-> "none",
          log |-> <<EvWrite(ERASE_LOGGED_DATA, <<>>)>>
                  \o (IF wrote THEN <<>> ELSE <<EvFault("write")>>)]

\* Lines 159-165: one write, no read.
erase_logged_data(wrote) ==
    IF quantum = "None"
    THEN [ret |-> NoneV, exc |-> "AttributeError", log |-> <<>>]
    ELSE IF wrote
    THEN [ret |-> BoolV(TRUE), exc |-> "none",
          log |-> <<EvWrite(ERASE_LOGGED_DATA, <<>>)>>]
    ELSE [ret |-> BoolV(FALSE), exc |-> "none",
          log |-> <<EvWrite(ERASE_LOGGED_DATA, <<>>), EvFault("write")>>]

\* The input buffer after erase_logged_data: no read follows the write, so
\* whatever the device answers to a request that went out stays in it.
EraseLink(wrote) ==
    IF quantum = "None" \/ ~wrote THEN {unread}
    ELSE unread..Min(MaxUnread, unread + VOLT_REPLY_LEN)

Call_erase_logged_data ==
    /\ pc = "idle"
    /\ op' = "erase_logged_data"
    /\ pc' = "done"
    /\ \E wrote \in BOOLEAN :
         LET e == erase_logged_data(wrote) IN
         /\ result' = e.ret
         /\ exc' = e.exc
         /\ log' = e.log
         /\ \E u \in EraseLink(wrote) : unread' = u
    /\ UNCHANGED <<quantum, multiplier, offset, calOf, locals, csvfile>>

\* ------------------------------------------------------- get_logging_count
\* Lines 167-178: the value returned, the exception, the local `response`.
get_logging_count(out) ==
    LET w == <<EvWrite(GET_LOGGING_COUNT, <<>>)>>
        rd == <<EvRead(ReadU32(out))>>
    IN
    IF quantum = "None"
    THEN [ret |-> NoneV, exc |-> "AttributeError", response |-> <<>>, log |-> <<>>]
    ELSE
    CASE out.kind = "write_fault" ->
           [ret |-> NoneV, exc |-> "none", response |-> <<>>,
            log |-> w \o <<FaultOf(out)>>]
      [] out.kind = "read_fault" ->
           [ret |-> NoneV, exc |-> "none", response |-> <<>>,
            log |-> w \o <<FaultOf(out)>>]
      [] out.kind = "reply" ->
           LET r == Slice1(ReadU32(out)) IN
           IF r = <<>>
           THEN [ret |-> IntV(0), exc |-> "none", response |-> r,
                 log |-> w \o rd]
           ELSE IF UnpackRaises(r)
           THEN \* struct.error is not an IOError
                [ret |-> NoneV, exc |-> "struct.error", response |-> r,
                 log |-> w \o rd]
           ELSE [ret |-> IntV(UnpackU32(r)), exc |-> "none", response |-> r,
                 log |-> w \o rd]

Call_get_logging_count ==
    /\ pc = "idle"
    /\ op' = "get_logging_count"
    /\ pc' = "done"
    /\ \E out \in ExchOutcomes(0..MaxCount) :
         LET g == get_logging_count(out) IN
         /\ Readable(out)
         /\ \E u \in LinkAfter(out) : unread' = u
         /\ result' = g.ret
         /\ exc' = g.exc
         /\ response' = g.response
         /\ log' = g.log
    /\ UNCHANGED <<quantum, multiplier, offset, calOf, i, response_list, voltage,
                   count, earliest_datetime, current_datetime, csvfile>>

\* --------------------------------------------------- get_all_logged_entries
\* open('logged_entries.csv', 'w') and the header row.
OpenedFile == [exists |-> TRUE, header |-> TRUE, rows |-> <<>>]

\* writer.writerow([timestamp, entry])
WriteRow(f, ts, e) == [f EXCEPT !.rows = Append(@, <<ts, e>>)]

\* earliest_datetime = current_datetime - timedelta(minutes=count)
Earliest(now, n) == now - n

\* Mutant: the entries are stamped one minute late.
Timestamp_OffByOne(earliest, idx) == earliest + idx + 1

\* timestamp = earliest_datetime + timedelta(minutes=i)
Timestamp(earliest, idx) == earliest + idx

\* Mutant: the file is opened whatever get_logging_count returned.
CountKnown_Always(c) == TRUE

\* if count is not None
CountKnown(c) == c # NoneV

\* Lines 181-188: the count, then the file and the earliest timestamp.
get_all_logged_entries_begin(now) ==
    /\ pc = "idle"
    /\ op' = "get_all_logged_entries"
    /\ current_datetime' = now
    /\ i' = 0
    /\ \E out \in ExchOutcomes(0..MaxCount) :
         LET g == get_logging_count(out) IN
         /\ Readable(out)
         /\ \E u \in LinkAfter(out) : unread' = u
         /\ response' = g.response
         /\ log' = g.log
         /\ IF g.exc # "none"
            THEN /\ Raise(g.exc)
                 /\ UNCHANGED <<count, earliest_datetime, csvfile>>
            ELSE /\ count' = g.ret
                 /\ exc' = "none"
                 /\ result' = NoneV
                 /\ IF CountKnown(g.ret)
                    THEN /\ pc' = "gale_loop"
                         /\ csvfile' = OpenedFile
                         /\ earliest_datetime' = Earliest(now, g.ret.num)
                    ELSE /\ pc' = "done"
                         /\ UNCHANGED <<earliest_datetime, csvfile>>
    /\ UNCHANGED <<quantum, multiplier, offset, calOf, response_list, voltage>>

\* Lines 190-204: one pass of the loop.
get_all_logged_entries_iter ==
    /\ pc = "gale_loop"
    /\ i < count.num
    /\ \E out \in ExchOutcomes(Entries) :
         LET w == EvWrite(GET_LOGGED_ENTRY, PackU32(i)) IN
         /\ Readable(out)
         /\ \E u \in LinkAfter(out) : unread' = u
         /\ CASE out.kind \in {"write_fault", "read_fault"} ->
                \* except IOError: print, next index
                /\ log' = log \o <<w, FaultOf(out)>>
                /\ i' = i + 1
                /\ UNCHANGED <<response, csvfile, pc, exc, result>>
           [] out.kind = "reply" ->
                LET r == Slice1(ReadFloat(out)) IN
                /\ response' = r
                /\ log' = log \o <<w, EvRead(ReadFloat(out))>>
                /\ IF r = <<>>
                   THEN /\ i' = i + 1
                        /\ UNCHANGED <<csvfile, pc, exc, result>>
                   ELSE IF UnpackRaises(r)
                   THEN \* struct.error leaves the loop and the with block
                        /\ Raise("struct.error")
                        /\ UNCHANGED <<i, csvfile>>
                   ELSE /\ csvfile' = WriteRow(csvfile,
                                        Timestamp(earliest_datetime, i), UnpackF(r))
                        /\ i' = i + 1
                        /\ UNCHANGED <<pc, exc, result>>
    /\ UNCHANGED <<quantum, multiplier, offset, calOf, op, response_list, voltage,
                   count, earliest_datetime, current_datetime>>

\* The loop is over: the file is closed and None is returned.
get_all_logged_entries_end ==
    /\ pc = "gale_loop"
    /\ i = count.num
    /\ pc' = "done"
    /\ exc' = "none"
    /\ result' = NoneV
    /\ UNCHANGED <<quantum, multiplier, offset, calOf, op, locals, csvfile, log, unread>>

\* The operation's frame is gone: the caller has the result (or has caught the
\* exception) and holds the object.
Return ==
    /\ pc = "done"
    /\ pc' = "idle"
    /\ op' = "none"
    /\ exc' = "none"
    /\ result' = NoneV
    /\ i' = 0
    /\ response_list' = <<>>
    /\ response' = <<>>
    /\ voltage' = NoneV
    /\ count' = NoneV
    /\ earliest_datetime' = 0
    /\ current_datetime' = 0
    /\ log' = <<>>
    /\ UNCHANGED <<quantum, multiplier, offset, calOf, csvfile, unread>>

\* =================================================================== claims
PublicOps ==
    {"connect_to_device", "read_voltage", "get_micromoles", "get_logging_count",
     "get_all_logged_entries", "erase_logged_data"}

DependentOps == PublicOps \ {"connect_to_device"}

Calibrated == calOf.multiplier = "current" /\ calOf.offset = "current"

\* Positions of the log where request c was handed to write().
WritesOf(c) == {k \in DOMAIN log : log[k].ev = "write" /\ log[k].cmd = c}

\* Positions of the reads that answer request c.
ReadsOf(c) ==
    {k \in DOMAIN log : /\ log[k].ev = "read"
                        /\ k > 1
                        /\ log[k - 1].ev = "write" /\ log[k - 1].cmd = c}

\* Positions of the reads that returned a whole 5-byte reply to request c.
FullReadsOf(c) == {k \in ReadsOf(c) : Len(log[k].data) = VOLT_REPLY_LEN}

\* Positions where an exchange of request c raised an IOError.
FaultsOf(c) ==
    {k \in DOMAIN log : /\ log[k].ev = "fault"
                        /\ k > 1
                        /\ log[k - 1].ev = "write" /\ log[k - 1].cmd = c}

\* The sum of the floats carried by the whole replies to c among log[1..k].
RECURSIVE ReplySum(_, _)
ReplySum(c, k) ==
    IF k = 0 THEN 0
    ELSE ReplySum(c, k - 1)
         + (IF k \in FullReadsOf(c) THEN UnpackF(Slice1(log[k].data)) ELSE 0)

\* C1: every public operation absorbs every failure of the link (open failure,
\* write fault, read fault, reply of the wrong length): an operation that
\* touched the link ends by returning, never with an uncaught exception.
C1_FailuresAbsorbed ==
    (pc = "done" /\ op \in PublicOps /\ log # <<>>) => exc = "none"

\* C2: the driver is Connected (handle not null) after connect_to_device only
\* when the open and the whole calibration read succeeded, and it starts
\* Disconnected.
C2_ConnectedOnlyWhenCalibrated ==
    /\ pc = "start" => quantum = "None"
    /\ (pc = "done" /\ op = "connect_to_device" /\ quantum # "None")
           => (exc = "none" /\ Calibrated)

\* C3: wherever the driver holds a handle, multiplier and offset were both
\* decoded from the calibration exchange on that handle, and no GET_VOLT is
\* written without them.
C3_CalibratedBeforeMeasurement ==
    pc # "dead" =>
        /\ quantum # "None" => Calibrated
        /\ WritesOf(GET_VOLT) # {} => Calibrated

\* C4: in the averaged read an exchange that raises an I/O fault is the last
\* thing the operation does on the link, and read_voltage returns 9999 at once,
\* whatever was decoded before.
C4_FaultGivesSentinel ==
    \A k \in FaultsOf(GET_VOLT) :
        /\ k = Len(log)
        /\ exc = "none"
        /\ op = "read_voltage" => (pc = "done" /\ result = IntV(SENTINEL))
        /\ op = "get_micromoles" =>
               (pc \in {"gm_ret", "done"} /\ voltage = IntV(SENTINEL))

\* C4 witness: the fault came after samples had been decoded.
C4_Witness ==
    /\ pc = "done" /\ op = "read_voltage"
    /\ FaultsOf(GET_VOLT) # {}
    /\ Len(response_list) >= 2
    /\ result = IntV(SENTINEL)

\* C5: bulk retrieval with count n requests every index 0..n-1 in order and
\* completes whichever exchanges fail, and the rows are those of the entries
\* decoded (only the header when n = 0).
C5_BulkCompletes ==
    (pc = "done" /\ op = "get_all_logged_entries" /\ count # NoneV) =>
        /\ exc = "none"
        /\ Cardinality(WritesOf(GET_LOGGED_ENTRY)) = count.num
        /\ \A k \in WritesOf(GET_LOGGED_ENTRY) :
             log[k].data = PackU32(Cardinality({j \in WritesOf(GET_LOGGED_ENTRY) : j < k}))
        /\ csvfile.header
        /\ Len(csvfile.rows) = Cardinality(FullReadsOf(GET_LOGGED_ENTRY))

\* C6: with no handle, every dependent operation is a no-op or returns its
\* failure result; none ends any other way.
C6_NoHandleNoFault ==
    (pc = "done" /\ op \in DependentOps /\ quantum = "None") => exc = "none"

\* C7: when no exchange faults, read_voltage writes exactly 5 GET_VOLT requests
\* and returns the mean of the samples carried by the whole replies; a read
\* that returned nothing is neither counted nor retried, and with no sample
\* at all the result is 0.0.
C7_MeanOfDecoded ==
    (pc = "done" /\ op = "read_voltage" /\ exc = "none"
        /\ FaultsOf(GET_VOLT) = {}) =>
        LET n == Cardinality(FullReadsOf(GET_VOLT)) IN
        /\ Cardinality(WritesOf(GET_VOLT)) = number_to_average
        /\ Cardinality(ReadsOf(GET_VOLT)) = number_to_average
        /\ result.kind = "float"
        /\ n = 0 => result.num = 0
        /\ n > 0 => result.num * n = ReplySum(GET_VOLT, Len(log)) * result.den

\* C7 witness: some reads returned nothing and different samples were averaged.
C7_Witness ==
    /\ pc = "done" /\ op = "read_voltage" /\ exc = "none"
    /\ FaultsOf(GET_VOLT) = {}
    /\ Cardinality(FullReadsOf(GET_VOLT)) = 3
    /\ \E k \in ReadsOf(GET_VOLT) : log[k].data = <<>>
    /\ result = FloatV(SENTINEL + 2, 3)

\* A step of the loop that changes the rows appends one row, stamped
\* (current_datetime - count) + i for the index i of the step.
C8_RowAtIndex ==
    (pc = "gale_loop" /\ csvfile'.rows # csvfile.rows) =>
        /\ i < count.num
        /\ i' = i + 1
        /\ Len(csvfile'.rows) = Len(csvfile.rows) + 1
        /\ SubSeq(csvfile'.rows, 1, Len(csvfile.rows)) = csvfile.rows
        /\ csvfile'.rows[Len(csvfile'.rows)][1] = (current_datetime - count.num) + i

\* The rows' timestamps increase strictly and lie before current_datetime.
C8_RowsOrdered ==
    (op = "get_all_logged_entries" /\ count # NoneV) =>
        \A j \in DOMAIN csvfile.rows :
            /\ csvfile.rows[j][1] < current_datetime
            /\ j > 1 => csvfile.rows[j - 1][1] < csvfile.rows[j][1]

\* C8: the row written for index i carries the timestamp (T - n) + i, so the
\* timestamps of the rows increase strictly and all lie before T.
C8_Timestamps == []C8_RowsOrdered /\ [][C8_RowAtIndex]_vars

\* C8 witness: a retrieval that wrote a row for each of two or more indices.
C8_Witness ==
    /\ pc = "done" /\ op = "get_all_logged_entries"
    /\ count.num >= 2
    /\ Len(csvfile.rows) = count.num

\* The step of get_all_logged_entries that gets no count (None returned, or an
\* exception) ends the operation and leaves the file as it was.
C9_AbortStep ==
    (pc = "idle" /\ op' = "get_all_logged_entries" /\ count' = NoneV) =>
        /\ csvfile' = csvfile
        /\ pc' = "done"
        /\ \A k \in DOMAIN log' : log'[k].cmd # GET_LOGGED_ENTRY

\* C9: when the count retrieval fails, bulk retrieval ends there: the file is
\* left as it was (not created, not truncated, no header) and no
\* GET_LOGGED_ENTRY is written.
C9_NoSideEffects == [][C9_AbortStep]_vars

\* C9 witness: the count retrieval failed while a file of an earlier retrieval
\* held rows.
C9_Witness ==
    /\ pc = "done" /\ op = "get_all_logged_entries"
    /\ count = NoneV
    /\ csvfile.rows # <<>>

\* C10: get_logging_count returns the unsigned 32-bit value of bytes 1-4 of a
\* 5-byte reply, 0 for an empty reply, and None (no count) for an I/O failure.
C10_CountDecoded ==
    (pc = "done" /\ op = "get_logging_count") =>
        /\ \A k \in FaultsOf(GET_LOGGING_COUNT) :
             exc = "none" /\ result = NoneV /\ result.kind # "int"
        /\ \A k \in ReadsOf(GET_LOGGING_COUNT) :
             LET d == log[k].data IN
             /\ Len(d) = VOLT_REPLY_LEN =>
                    /\ exc = "none"
                    /\ result.kind = "int"
                    /\ result.num = d[2] + 256 * d[3] + 65536 * d[4] + 16777216 * d[5]
             /\ Len(d) = 0 => (exc = "none" /\ result = IntV(0))

\* C10 witness: a whole reply carrying a count above 0.
C10_Witness ==
    /\ pc = "done" /\ op = "get_logging_count"
    /\ FullReadsOf(GET_LOGGING_COUNT) # {}
    /\ result.kind = "int" /\ result.num > 0

\* C11: erase_logged_data reports success exactly when the write of
\* ERASE_LOGGED_DATA succeeded, failure when the write raised, and reads nothing.
C11_EraseReportsWrite ==
    (pc = "done" /\ op = "erase_logged_data") =>
        /\ \A k \in DOMAIN log : log[k].ev # "read"
        /\ Cardinality(WritesOf(ERASE_LOGGED_DATA)) <= 1
        /\ FaultsOf(ERASE_LOGGED_DATA) # {} =>
               (exc = "none" /\ result = BoolV(FALSE))
        /\ (WritesOf(ERASE_LOGGED_DATA) # {} /\ FaultsOf(ERASE_LOGGED_DATA) = {}) =>
               (exc = "none" /\ result = BoolV(TRUE))
        /\ result = BoolV(TRUE) =>
               (WritesOf(ERASE_LOGGED_DATA) # {} /\ FaultsOf(ERASE_LOGGED_DATA) = {})

\* C11 witness: the write raised and failure was reported.
C11_Witness ==
    /\ pc = "done" /\ op = "erase_logged_data"
    /\ FaultsOf(ERASE_LOGGED_DATA) # {}
    /\ result = BoolV(FALSE)

\* C12: get_micromoles returns None when the averaged voltage equals 9999, and
\* otherwise max(0, (voltage - offset) * multiplier * 1000), never a negative
\* number.
C12_MicromolesClamped ==
    (pc = "done" /\ op = "get_micromoles" /\ exc = "none") =>
        LET n == (voltage.num - offset * voltage.den) * multiplier * 1000 IN
        /\ voltage.kind # "None" /\ voltage.den > 0
        /\ voltage.num = SENTINEL * voltage.den => result = NoneV
        /\ voltage.num # SENTINEL * voltage.den =>
             /\ result.kind \in {"int", "float"}
             /\ result.num >= 0 /\ result.den > 0
             /\ n < 0 => result.num = 0
             /\ n >= 0 => result.num * voltage.den = n * result.den

\* C12 witness: a voltage below the offset, clamped to 0.
C12_Witness ==
    /\ pc = "done" /\ op = "get_micromoles" /\ exc = "none"
    /\ voltage.num < offset * voltage.den
    /\ multiplier > 0
    /\ result = IntV(0)

\* The requests whose reply is read with read(5)[1:] and decoded.
DecodedCmds == {GET_VOLT, GET_LOGGING_COUNT, GET_LOGGED_ENTRY}

\* C13: a reply of 1 to 4 bytes to a voltage, count or entry request is never
\* taken as a value nor treated as an empty reply: the operation fails on it.
C13_ShortReplyFails ==
    \A c \in DecodedCmds : \A k \in ReadsOf(c) :
        Len(log[k].data) \in 1..(VOLT_REPLY_LEN - 1) =>
            (pc = "done" /\ exc = "struct.error" /\ k = Len(log))

\* One step of an operation other than connect_to_device, taken with a handle
\* and a decoded calibration, keeps the three of them.
C14_Step ==
    (quantum = "Serial" /\ Calibrated /\ op' # "connect_to_device") =>
        (quantum' = quantum /\ multiplier' = multiplier /\ offset' = offset
         /\ calOf' = calOf)

\* C14: after a successful connect no step of read_voltage, get_micromoles,
\* get_logging_count, get_all_logged_entries or erase_logged_data changes the
\* multiplier, the offset or the handle.
C14_CalibrationImmutable == [][C14_Step]_vars

\* C14 witness: a read_voltage that met an I/O fault with a calibrated handle
\* and has returned, the handle still there.
C14_Witness ==
    /\ pc = "done" /\ op = "read_voltage"
    /\ quantum = "Serial" /\ Calibrated
    /\ FaultsOf(GET_VOLT) # {}
    /\ log[1].ev = "write"

\* The measuring operations.
VoltOps == {"read_voltage", "get_micromoles"}

\* Each GET_VOLT write is answered (read or fault) before the next one, and
\* there are never more than five.
VoltSerial ==
    LET w == WritesOf(GET_VOLT) IN
    /\ Cardinality(w) <= number_to_average
    /\ pc = "rv_loop" => Cardinality(w) = i
    /\ \A k \in w :
         k < Len(log) => log[k + 1].ev \in {"read", "fault"}

\* C15 as stated: every GET_VOLT read that is followed by another request is
\* followed by a pause first, sample or no bytes alike.
C15_PauseBetweenExchanges ==
    op \in VoltOps =>
        /\ VoltSerial
        /\ \A k \in ReadsOf(GET_VOLT) :
             (\E j \in WritesOf(GET_VOLT) : j > k) => log[k + 1] = EvSleep

\* C15: the GET_VOLT exchanges are serial and at most five; a pause follows
\* every exchange whose reply was decoded as a sample, the fifth included, and
\* an exchange whose read gave no payload is followed by the next request
\* with no pause; there is no other pause.
C15_PauseAfterSample ==
    op \in VoltOps =>
        /\ VoltSerial
        /\ \A k \in ReadsOf(GET_VOLT) :
             /\ Len(log[k].data) = VOLT_REPLY_LEN =>
                    (k < Len(log) /\ log[k + 1] = EvSleep)
             /\ (Len(log[k].data) <= 1 /\ k < Len(log)) =>
                    log[k + 1] = EvWrite(GET_VOLT, <<>>)
        /\ \A k \in DOMAIN log :
             log[k] = EvSleep =>
                 /\ k > 2
                 /\ log[k - 1].ev = "read"
                 /\ Len(log[k - 1].data) = VOLT_REPLY_LEN
                 /\ log[k - 2] = EvWrite(GET_VOLT, <<>>)

\* C15 witness: both cases in one measurement, a sample followed by a pause
\* and a read of no bytes followed at once by the next request.
C15_Witness ==
    /\ op \in VoltOps
    /\ \E k \in FullReadsOf(GET_VOLT) : (k + 2) \in WritesOf(GET_VOLT)
    /\ \E k \in ReadsOf(GET_VOLT) :
         log[k].data = <<>> /\ (k + 1) \in WritesOf(GET_VOLT)

\* C16: the bulk retrieval asks the count once, then makes exactly one
\* GET_LOGGED_ENTRY exchange per index 0..count-1, ascending, each carrying
\* its index, each answered before the next is written, none repeated.
C16_OneExchangePerIndex ==
    op = "get_all_logged_entries" =>
        /\ Cardinality(WritesOf(GET_LOGGING_COUNT)) <= 1
        /\ \A k \in WritesOf(GET_LOGGED_ENTRY) :
             /\ log[k].data =
                  PackU32(Cardinality({j \in WritesOf(GET_LOGGED_ENTRY) : j < k}))
             /\ (k + 1) \in DOMAIN log => log[k + 1].ev \in {"read", "fault"}
             /\ \E j \in WritesOf(GET_LOGGING_COUNT) : j < k
        /\ (pc = "done" /\ count.kind = "int") =>
             Cardinality(WritesOf(GET_LOGGED_ENTRY)) = count.num

\* C17: get_micromoles gives no result only when an I/O fault occurred; when
\* every exchange completed without one it returns a number.
C17_NoResultOnlyOnFault ==
    (pc = "done" /\ op = "get_micromoles" /\ exc = "none"
       /\ \A k \in DOMAIN log : log[k].ev # "fault") =>
        result # NoneV

\* One step that hands a request to write() on the handle it already had (no
\* open in the step) starts with an empty input buffer.
C18_Step ==
    (Len(log') > Len(log) /\ log'[Len(log) + 1].ev = "write") => unread = 0

\* C18: whenever the driver writes a request, no byte of an earlier reply is
\* still unread on the link, including after a read cut short by the timeout,
\* a faulted exchange, or an erase whose reply is not read.
C18_RequestReplyPaired == [][C18_Step]_vars

Next ==
    \/ Quantum_init
    \/ Call_connect_to_device
    \/ \E o \in {"read_voltage", "get_micromoles"} : read_voltage_begin(o)
    \/ read_voltage_iter
    \/ read_voltage_end
    \/ get_micromoles_end
    \/ Call_erase_logged_data
    \/ Call_get_logging_count
    \/ \E now \in Times : get_all_logged_entries_begin(now)
    \/ get_all_logged_entries_iter
    \/ get_all_logged_entries_end
    \/ Return

Spec == Init /\ [][Next]_vars
====
